---------------------------- MODULE Spec2Model ----------------------------
(***************************************************************************)
(* A model of package encoding (github.com/thinkgos/encoding): the MIME    *)
(* registry (Encoding.Register / Get / Delete) and the negotiation of a    *)
(* codec from Content-Type and Accept header values.                       *)
(*                                                                         *)
(* A Go string is modelled as the sequence of its characters, each a       *)
(* one-character TLA+ string, so that cutting at ";", lower-casing,        *)
(* trimming and splitting at "," are computed, not assumed.                *)
(* A codec (a codec.Marshaler value) is modelled by its identity, a        *)
(* string naming the object; Nil is Go's nil interface value, and also the *)
(* nil error.                                                              *)
(***************************************************************************)
EXTENDS Integers, Sequences, FiniteSets, TLC

VARIABLES
    mimeMap,        \* Encoding.mimeMap: MIME string -> codec
    mimeQuery,      \* Encoding.mimeQuery
    mimeUri,        \* Encoding.mimeUri
    mimeWildcard,   \* Encoding.mimeWildcard
    pre,            \* the four fields as they were when the last call began
    call,           \* the last call: its name, its arguments and what it returned
    req,            \* the *http.Request the last call was given
    payload,        \* the value v the last call was given to encode
    w,              \* the http.ResponseWriter the last call was given
    trace,          \* the calls the last call made on codecs, req and w, in order
    threads         \* the goroutines that share the Encoding: the call of each

vars == <<mimeMap, mimeQuery, mimeUri, mimeWildcard, pre, call, req, payload, w,
         trace, threads>>

Nil == "nil"

\* m[k] = v on a Go map
MapSet(m, k, v) ==
    [x \in DOMAIN m \cup {k} |-> IF x = k THEN v ELSE m[x]]

\* delete(m, k) on a Go map
MapDelete(m, k) ==
    [x \in DOMAIN m \ {k} |-> m[x]]

\* m[k] on a Go map of interface values: the zero value nil when k is absent
MapIndex(m, k) ==
    IF k \in DOMAIN m THEN m[k] ELSE Nil

-----------------------------------------------------------------------------
(* The MIME constants of the package, as character sequences.               *)

\* "__MIME__/QUERY"
Mime_Query ==
    <<"_", "_", "M", "I", "M", "E", "_", "_", "/", "Q", "U", "E", "R", "Y">>

\* "__MIME__/URI"
Mime_Uri ==
    <<"_", "_", "M", "I", "M", "E", "_", "_", "/", "U", "R", "I">>

\* "*"
Mime_Wildcard ==
    <<"*">>

\* "application/json"
Mime_JSON ==
    <<"a", "p", "p", "l", "i", "c", "a", "t", "i", "o", "n", "/", "j", "s", "o", "n">>

\* "text/xml"
Mime_XML2 ==
    <<"t", "e", "x", "t", "/", "x", "m", "l">>

\* "text/plain"
Mime_Plain ==
    <<"t", "e", "x", "t", "/", "p", "l", "a", "i", "n">>

\* "application/x-www-form-urlencoded"
Mime_PostForm ==
    <<"a", "p", "p", "l", "i", "c", "a", "t", "i", "o", "n", "/", "x", "-",
      "w", "w", "w", "-", "f", "o", "r", "m", "-", "u", "r", "l", "e", "n",
      "c", "o", "d", "e", "d">>

\* "multipart/form-data"
Mime_MultipartPostForm ==
    <<"m", "u", "l", "t", "i", "p", "a", "r", "t", "/", "f", "o", "r", "m",
      "-", "d", "a", "t", "a">>

\* the empty string
EmptyString ==
    <<>>

-----------------------------------------------------------------------------
(* Go's string functions, as the standard library computes them.            *)

\* unicode.IsSpace, on the characters a header can hold
IsSpace(c) ==
    c \in {" ", "\t", "\n", "\r", "\f"}

UpperLetters ==
    <<"A", "B", "C", "D", "E", "F", "G", "H", "I", "J", "K", "L", "M", "N",
      "O", "P", "Q", "R", "S", "T", "U", "V", "W", "X", "Y", "Z">>

LowerLetters ==
    <<"a", "b", "c", "d", "e", "f", "g", "h", "i", "j", "k", "l", "m", "n",
      "o", "p", "q", "r", "s", "t", "u", "v", "w", "x", "y", "z">>

\* the lower-case letter of every upper-case letter
LowerOf ==
    [c \in {UpperLetters[i] : i \in DOMAIN UpperLetters} |->
        LowerLetters[CHOOSE i \in DOMAIN UpperLetters : UpperLetters[i] = c]]

ToLowerChar(c) ==
    IF c \in DOMAIN LowerOf THEN LowerOf[c] ELSE c

\* strings.ToLower
ToLower(s) ==
    [i \in DOMAIN s |-> ToLowerChar(s[i])]

\* s[from:] of Go, with from counted from 1
Suffix(s, from) ==
    SubSeq(s, from, Len(s))

RECURSIVE TrimLeft(_)
\* strings.TrimLeftFunc(s, unicode.IsSpace)
TrimLeft(s) ==
    IF s # <<>> /\ IsSpace(s[1]) THEN TrimLeft(Tail(s)) ELSE s

RECURSIVE TrimRight(_)
\* strings.TrimRightFunc(s, unicode.IsSpace)
TrimRight(s) ==
    IF s # <<>> /\ IsSpace(s[Len(s)]) THEN TrimRight(SubSeq(s, 1, Len(s) - 1)) ELSE s

\* strings.TrimSpace
TrimSpace(s) ==
    TrimRight(TrimLeft(s))

RECURSIVE IndexFrom(_, _, _)
\* the first place of c in s at or after i, 0 when there is none
IndexFrom(s, c, i) ==
    IF i > Len(s) THEN 0
    ELSE IF s[i] = c THEN i
    ELSE IndexFrom(s, c, i + 1)

\* strings.IndexByte(s, c) + 1: the first place of c in s, 0 when there is none
IndexOf(s, c) ==
    IndexFrom(s, c, 1)

\* before of strings.Cut(s, c)
CutBefore(s, c) ==
    LET i == IndexOf(s, c)
    IN  IF i = 0 THEN s ELSE SubSeq(s, 1, i - 1)

\* strings.HasPrefix(s, c) for a one-character prefix
HasPrefix(s, c) ==
    Len(s) > 0 /\ s[1] = c

RECURSIVE Split(_, _)
\* strings.Split(s, c) for a one-character separator
Split(s, c) ==
    LET i == IndexOf(s, c)
    IN  IF i = 0 THEN <<s>>
        ELSE <<SubSeq(s, 1, i - 1)>> \o Split(Suffix(s, i + 1), c)

-----------------------------------------------------------------------------
(* mime.ParseMediaType of the standard library, which the Content-Type      *)
(* resolution calls on every header value.  Only the media type and the     *)
(* error are used by the caller; the parameters are parsed because a        *)
(* malformed or duplicated parameter makes the whole call fail.             *)

\* the tspecials of RFC 1521 and RFC 2045
TSpecials ==
    {"(", ")", "<", ">", "@", ",", ";", ":", "\\", "\"", "/", "[", "]", "?", "="}

\* isTokenChar of package mime
IsTokenChar(c) ==
    ~IsSpace(c) /\ c \notin TSpecials

RECURSIVE notTokenFrom(_, _)
\* strings.IndexFunc(v, isNotTokenChar) + 1 from place i on: the first place
\* of a character that is no token character, 0 when there is none
notTokenFrom(v, i) ==
    IF i > Len(v) THEN 0
    ELSE IF ~IsTokenChar(v[i]) THEN i
    ELSE notTokenFrom(v, i + 1)

\* consumeToken of package mime: the longest prefix of token characters
consumeToken(v) ==
    LET notPos == notTokenFrom(v, 1)
    IN  IF notPos = 0 THEN [token |-> v, rest |-> <<>>]
        ELSE IF notPos = 1 THEN [token |-> <<>>, rest |-> v]
        ELSE [token |-> SubSeq(v, 1, notPos - 1), rest |-> Suffix(v, notPos)]

RECURSIVE consumeQuoted(_, _, _)
\* the quoted-string loop of consumeValue: i is the place read next
consumeQuoted(v, i, buffer) ==
    IF i > Len(v) THEN [value |-> <<>>, rest |-> v]
    ELSE IF v[i] = "\"" THEN [value |-> buffer, rest |-> Suffix(v, i + 1)]
    ELSE IF v[i] = "\\" /\ i + 1 <= Len(v) /\ v[i + 1] \in TSpecials
         THEN consumeQuoted(v, i + 2, Append(buffer, v[i + 1]))
    ELSE IF v[i] = "\r" \/ v[i] = "\n" THEN [value |-> <<>>, rest |-> v]
    ELSE consumeQuoted(v, i + 1, Append(buffer, v[i]))

\* consumeValue of package mime, tok being consumeToken(v)
consumeValueToken(v, tok) ==
    IF v = <<>> THEN [value |-> <<>>, rest |-> <<>>]
    ELSE IF v[1] # "\"" THEN [value |-> tok.token, rest |-> tok.rest]
    ELSE consumeQuoted(v, 2, <<>>)

\* consumeValue of package mime
consumeValue(v) ==
    consumeValueToken(v, consumeToken(v))

\* what consumeMediaParam of package mime returns when v starts with no
\* parameter
noMediaParam(v) ==
    [param |-> <<>>, value |-> <<>>, rest |-> v]

\* consumeMediaParam from consumeValue on: rest is what follows the "="
mediaParamValue(v, param, rest, val) ==
    IF val.value = <<>> /\ val.rest = rest THEN noMediaParam(v)
    ELSE [param |-> param, value |-> val.value, rest |-> val.rest]

\* consumeMediaParam from the "=" on: rest is what follows the name
mediaParamEquals(v, param, rest) ==
    IF ~HasPrefix(rest, "=") THEN noMediaParam(v)
    ELSE mediaParamValue(v, param, TrimLeft(Suffix(rest, 2)),
                         consumeValue(TrimLeft(Suffix(rest, 2))))

\* consumeMediaParam from the name on: tok is the token after the ";"
mediaParamName(v, tok) ==
    IF ToLower(tok.token) = <<>> THEN noMediaParam(v)
    ELSE mediaParamEquals(v, ToLower(tok.token), TrimLeft(tok.rest))

\* consumeMediaParam from the ";" on: rest is v without leading white space
mediaParamSemicolon(v, rest) ==
    IF ~HasPrefix(rest, ";") THEN noMediaParam(v)
    ELSE mediaParamName(v, consumeToken(TrimLeft(Suffix(rest, 2))))

\* consumeMediaParam of package mime
consumeMediaParam(v) ==
    mediaParamSemicolon(v, TrimLeft(v))

ErrNoMediaType == "mime: no media type"
ErrExpectedSlash == "mime: expected slash after first token"
ErrExpectedToken == "mime: expected token after slash"
ErrUnexpectedContent == "mime: unexpected content after media subtype"
ErrInvalidMediaParameter == "mime: invalid media parameter"
ErrDuplicateParameter == "mime: duplicate parameter name"

\* checkMediaTypeDisposition of package mime
checkMediaTypeDisposition(s) ==
    LET typ == consumeToken(s)
    IN  IF typ.token = <<>> THEN ErrNoMediaType
        ELSE IF typ.rest = <<>> THEN Nil
        ELSE IF ~HasPrefix(typ.rest, "/") THEN ErrExpectedSlash
        ELSE
          LET sub == consumeToken(Suffix(typ.rest, 2))
          IN  IF sub.token = <<>> THEN ErrExpectedToken
              ELSE IF sub.rest # <<>> THEN ErrUnexpectedContent
              ELSE Nil

RECURSIVE parseMediaParams(_, _, _, _)

\* the end of one round of the parameter loop of mime.ParseMediaType: the
\* parameter p is stored in pmap, which is params, or the map of p's base
\* name in continuation when star (the name holds a "*")
storeMediaParam(mediatype, p, params, continuation, star, baseName, pmap) ==
    IF p.param \in DOMAIN pmap /\ pmap[p.param] # p.value
    THEN [mediatype |-> <<>>, err |-> ErrDuplicateParameter]
    ELSE IF star
    THEN parseMediaParams(mediatype, p.rest, params,
                          MapSet(continuation, baseName,
                                 MapSet(pmap, p.param, p.value)))
    ELSE parseMediaParams(mediatype, p.rest, MapSet(params, p.param, p.value),
                          continuation)

\* one round of the loop from the choice of pmap on
chooseMediaParamMap(mediatype, p, params, continuation, star, baseName) ==
    storeMediaParam(mediatype, p, params, continuation, star, baseName,
                    IF ~star THEN params
                    ELSE IF baseName \in DOMAIN continuation
                    THEN continuation[baseName]
                    ELSE <<>>)

\* one round of the loop from consumeMediaParam on: p is what it returned
readMediaParam(mediatype, p, params, continuation) ==
    IF p.param = <<>> THEN
        IF TrimSpace(p.rest) = <<";">>
        THEN [mediatype |-> mediatype, err |-> Nil]
        ELSE [mediatype |-> mediatype, err |-> ErrInvalidMediaParameter]
    ELSE chooseMediaParamMap(mediatype, p, params, continuation,
                             IndexOf(p.param, "*") # 0, CutBefore(p.param, "*"))

\* the parameter loop of mime.ParseMediaType: v is what is left to read,
\* params the plain parameters read so far, continuation the parameters
\* whose name holds a "*", by base name
parseMediaParams(mediatype, v, params, continuation) ==
    IF Len(v) = 0 \/ Len(TrimLeft(v)) = 0
    THEN [mediatype |-> mediatype, err |-> Nil]
    ELSE readMediaParam(mediatype, consumeMediaParam(TrimLeft(v)), params,
                        continuation)

\* mime.ParseMediaType from checkMediaTypeDisposition on
parseCheckedMediaType(v, base, mediatype, err) ==
    IF err # Nil THEN [mediatype |-> <<>>, err |-> err]
    ELSE parseMediaParams(mediatype, Suffix(v, Len(base) + 1), <<>>, <<>>)

\* mime.ParseMediaType from the cut at ";" on
parseMediaTypeBase(v, base) ==
    parseCheckedMediaType(v, base, TrimSpace(ToLower(base)),
                          checkMediaTypeDisposition(TrimSpace(ToLower(base))))

\* mime.ParseMediaType: the media type and the error
ParseMediaType(v) ==
    parseMediaTypeBase(v, CutBefore(v, ";"))

-----------------------------------------------------------------------------
(* The codec objects.  New() builds six objects; a caller can build more.   *)

\* form.New("json") stored under Mime_PostForm by New()
DefaultFormCodec == "form.Codec@New"
\* &form.MultipartCodec{...} stored under Mime_MultipartPostForm by New()
DefaultMultipartCodec == "form.MultipartCodec@New"
\* &json.Codec{UseNumber: true, DisallowUnknownFields: false}
DefaultJSONCodec == "json.Codec@New"
\* &form.QueryCodec{...}
DefaultQueryCodec == "form.QueryCodec@New"
\* &form.UriCodec{...}
DefaultUriCodec == "form.UriCodec@New"
\* &json.Codec{UseNumber: true, DisallowUnknownFields: true}
DefaultWildcardCodec == "json.Codec@New(strict)"

\* a caller's &msgpack.Codec{}: the base Marshaler methods only
MsgpackCodec == "msgpack.Codec"
\* a caller's form.New("json"): the tests register it as query and as uri codec
FormCodec == "form.Codec"
\* marshaler.(codec.FormMarshaler) succeeds: for form.New("json"), which
\* the tests store in the query slot, and for what New() stores there
ImplementsFormMarshaler(marshaler) ==
    marshaler \in {FormCodec, DefaultFormCodec, DefaultQueryCodec}

\* marshaler.(codec.UriMarshaler) succeeds: for form.New("json"), which
\* the tests store in the uri slot, and for what New() stores there
ImplementsUriMarshaler(marshaler) ==
    marshaler \in {FormCodec, DefaultFormCodec, DefaultUriCodec}

-----------------------------------------------------------------------------
(* The registry.  An Encoding value r is the record of its four fields.     *)

\* the errors Register and Delete return
ErrEmptyMime == "encoding: empty MIME type"
ErrNilMarshaler == "encoding: marshaller should be not nil"
ErrNotFormMarshaler == "encoding: marshaller should be implement codec.FormMarshaler"
ErrNotUriMarshaler == "encoding: marshaller should be implement codec.UriMarshaler"
ErrCantDelete == "encoding: MIME can't delete, but you can override it"

New ==
    [mimeMap |->
        [x \in {Mime_PostForm, Mime_MultipartPostForm, Mime_JSON} |->
            IF x = Mime_PostForm THEN DefaultFormCodec
            ELSE IF x = Mime_MultipartPostForm THEN DefaultMultipartCodec
            ELSE DefaultJSONCodec],
     mimeQuery |-> DefaultQueryCodec,
     mimeUri |-> DefaultUriCodec,
     mimeWildcard |-> DefaultWildcardCodec]

\* Register as it would be if an entry once stored were never replaced
RegisterKeepsFirst(r, mime, marshaler) ==
    IF Len(mime) = 0 THEN [r |-> r, err |-> ErrEmptyMime]
    ELSE IF marshaler = Nil THEN [r |-> r, err |-> ErrNilMarshaler]
    ELSE IF mime = Mime_Query THEN
        IF ~ImplementsFormMarshaler(marshaler)
        THEN [r |-> r, err |-> ErrNotFormMarshaler]
        ELSE [r |-> [r EXCEPT !.mimeQuery = marshaler], err |-> Nil]
    ELSE IF mime = Mime_Uri THEN
        IF ~ImplementsUriMarshaler(marshaler)
        THEN [r |-> r, err |-> ErrNotUriMarshaler]
        ELSE [r |-> [r EXCEPT !.mimeUri = marshaler], err |-> Nil]
    ELSE IF mime = Mime_Wildcard THEN
        [r |-> [r EXCEPT !.mimeWildcard = marshaler], err |-> Nil]
    ELSE IF mime \in DOMAIN r.mimeMap THEN [r |-> r, err |-> Nil]
    ELSE
        [r |-> [r EXCEPT !.mimeMap = MapSet(r.mimeMap, mime, marshaler)],
         err |-> Nil]

\* Register as it would be without the check for a nil marshaler
RegisterNoNilCheck(r, mime, marshaler) ==
    IF Len(mime) = 0 THEN [r |-> r, err |-> ErrEmptyMime]
    ELSE IF mime = Mime_Query THEN
        IF ~ImplementsFormMarshaler(marshaler)
        THEN [r |-> r, err |-> ErrNotFormMarshaler]
        ELSE [r |-> [r EXCEPT !.mimeQuery = marshaler], err |-> Nil]
    ELSE IF mime = Mime_Uri THEN
        IF ~ImplementsUriMarshaler(marshaler)
        THEN [r |-> r, err |-> ErrNotUriMarshaler]
        ELSE [r |-> [r EXCEPT !.mimeUri = marshaler], err |-> Nil]
    ELSE IF mime = Mime_Wildcard THEN
        [r |-> [r EXCEPT !.mimeWildcard = marshaler], err |-> Nil]
    ELSE
        [r |-> [r EXCEPT !.mimeMap = MapSet(r.mimeMap, mime, marshaler)],
         err |-> Nil]

\* Register as it would be without the check for an empty MIME string
RegisterNoEmptyCheck(r, mime, marshaler) ==
    IF marshaler = Nil THEN [r |-> r, err |-> ErrNilMarshaler]
    ELSE IF mime = Mime_Query THEN
        IF ~ImplementsFormMarshaler(marshaler)
        THEN [r |-> r, err |-> ErrNotFormMarshaler]
        ELSE [r |-> [r EXCEPT !.mimeQuery = marshaler], err |-> Nil]
    ELSE IF mime = Mime_Uri THEN
        IF ~ImplementsUriMarshaler(marshaler)
        THEN [r |-> r, err |-> ErrNotUriMarshaler]
        ELSE [r |-> [r EXCEPT !.mimeUri = marshaler], err |-> Nil]
    ELSE IF mime = Mime_Wildcard THEN
        [r |-> [r EXCEPT !.mimeWildcard = marshaler], err |-> Nil]
    ELSE
        [r |-> [r EXCEPT !.mimeMap = MapSet(r.mimeMap, mime, marshaler)],
         err |-> Nil]

\* Register as it would be if the query slot took any marshaler
RegisterNoFormCheck(r, mime, marshaler) ==
    IF Len(mime) = 0 THEN [r |-> r, err |-> ErrEmptyMime]
    ELSE IF marshaler = Nil THEN [r |-> r, err |-> ErrNilMarshaler]
    ELSE IF mime = Mime_Query THEN
        [r |-> [r EXCEPT !.mimeQuery = marshaler], err |-> Nil]
    ELSE IF mime = Mime_Uri THEN
        IF ~ImplementsUriMarshaler(marshaler)
        THEN [r |-> r, err |-> ErrNotUriMarshaler]
        ELSE [r |-> [r EXCEPT !.mimeUri = marshaler], err |-> Nil]
    ELSE IF mime = Mime_Wildcard THEN
        [r |-> [r EXCEPT !.mimeWildcard = marshaler], err |-> Nil]
    ELSE
        [r |-> [r EXCEPT !.mimeMap = MapSet(r.mimeMap, mime, marshaler)],
         err |-> Nil]

\* Register as it would be without the case for Mime_Wildcard: "*" falls to
\* the default case and is stored in the map
RegisterWildcardInMap(r, mime, marshaler) ==
    IF Len(mime) = 0 THEN [r |-> r, err |-> ErrEmptyMime]
    ELSE IF marshaler = Nil THEN [r |-> r, err |-> ErrNilMarshaler]
    ELSE IF mime = Mime_Query THEN
        IF ~ImplementsFormMarshaler(marshaler)
        THEN [r |-> r, err |-> ErrNotFormMarshaler]
        ELSE [r |-> [r EXCEPT !.mimeQuery = marshaler], err |-> Nil]
    ELSE IF mime = Mime_Uri THEN
        IF ~ImplementsUriMarshaler(marshaler)
        THEN [r |-> r, err |-> ErrNotUriMarshaler]
        ELSE [r |-> [r EXCEPT !.mimeUri = marshaler], err |-> Nil]
    ELSE
        [r |-> [r EXCEPT !.mimeMap = MapSet(r.mimeMap, mime, marshaler)],
         err |-> Nil]

\* Register returns the error; r is the receiver after the call
Register(r, mime, marshaler) ==
    IF Len(mime) = 0 THEN [r |-> r, err |-> ErrEmptyMime]
    ELSE IF marshaler = Nil THEN [r |-> r, err |-> ErrNilMarshaler]
    ELSE IF mime = Mime_Query THEN
        IF ~ImplementsFormMarshaler(marshaler)
        THEN [r |-> r, err |-> ErrNotFormMarshaler]
        ELSE [r |-> [r EXCEPT !.mimeQuery = marshaler], err |-> Nil]
    ELSE IF mime = Mime_Uri THEN
        IF ~ImplementsUriMarshaler(marshaler)
        THEN [r |-> r, err |-> ErrNotUriMarshaler]
        ELSE [r |-> [r EXCEPT !.mimeUri = marshaler], err |-> Nil]
    ELSE IF mime = Mime_Wildcard THEN
        [r |-> [r EXCEPT !.mimeWildcard = marshaler], err |-> Nil]
    ELSE
        [r |-> [r EXCEPT !.mimeMap = MapSet(r.mimeMap, mime, marshaler)],
         err |-> Nil]

Get(r, mime) ==
    IF mime = Mime_Query THEN r.mimeQuery
    ELSE IF mime = Mime_Uri THEN r.mimeUri
    ELSE IF mime = Mime_Wildcard THEN r.mimeWildcard
    ELSE LET m == MapIndex(r.mimeMap, mime)
         IN  IF m = Nil THEN r.mimeWildcard ELSE m

\* Delete as it would be if "*" were not protected
DeleteWildcardAllowed(r, mime) ==
    IF mime = Mime_Query \/ mime = Mime_Uri
    THEN [r |-> r, err |-> ErrCantDelete]
    ELSE [r |-> [r EXCEPT !.mimeMap = MapDelete(r.mimeMap, mime)], err |-> Nil]

\* Delete as it would be if removing an absent MIME string were an error
DeleteAbsentFails(r, mime) ==
    IF mime = Mime_Wildcard \/ mime = Mime_Query \/ mime = Mime_Uri
    THEN [r |-> r, err |-> ErrCantDelete]
    ELSE IF mime \notin DOMAIN r.mimeMap
    THEN [r |-> r, err |-> "encoding: MIME not registered"]
    ELSE [r |-> [r EXCEPT !.mimeMap = MapDelete(r.mimeMap, mime)], err |-> Nil]

Delete(r, mime) ==
    IF mime = Mime_Wildcard \/ mime = Mime_Query \/ mime = Mime_Uri
    THEN [r |-> r, err |-> ErrCantDelete]
    ELSE [r |-> [r EXCEPT !.mimeMap = MapDelete(r.mimeMap, mime)], err |-> Nil]

-----------------------------------------------------------------------------
(* Negotiation: the codec for a list of header values.                      *)

RECURSIVE contentTypeLoop(_, _, _, _)
\* the for loop of marshalerFromHeaderContentType from the i-th value on;
\* contentType is the local variable as the earlier values left it
contentTypeLoop(r, values, i, contentType) ==
    IF i > Len(values) THEN [contentType |-> contentType, marshaler |-> Nil]
    ELSE LET parsed == ParseMediaType(values[i])
         IN  IF parsed.err # Nil
             THEN contentTypeLoop(r, values, i + 1, parsed.mediatype)
             ELSE IF parsed.mediatype \in DOMAIN r.mimeMap
             THEN [contentType |-> parsed.mediatype,
                   marshaler |-> r.mimeMap[parsed.mediatype]]
             ELSE contentTypeLoop(r, values, i + 1, parsed.mediatype)

RECURSIVE contentTypeLoopNoBreak(_, _, _, _, _)
\* the loop as it would be without its break: a later match replaces an earlier
contentTypeLoopNoBreak(r, values, i, contentType, marshaler) ==
    IF i > Len(values) THEN [contentType |-> contentType, marshaler |-> marshaler]
    ELSE LET parsed == ParseMediaType(values[i])
         IN  IF parsed.err # Nil
             THEN contentTypeLoopNoBreak(r, values, i + 1, contentType, marshaler)
             ELSE IF parsed.mediatype \in DOMAIN r.mimeMap
             THEN contentTypeLoopNoBreak(r, values, i + 1, parsed.mediatype,
                                         r.mimeMap[parsed.mediatype])
             ELSE contentTypeLoopNoBreak(r, values, i + 1, contentType, marshaler)

\* marshalerFromHeaderContentType as it would be without the break
ContentTypeLastMatchWins(r, values) ==
    LET found == contentTypeLoopNoBreak(r, values, 1, EmptyString, Nil)
    IN  IF found.marshaler = Nil
        THEN [contentType |-> Mime_Wildcard, marshaler |-> r.mimeWildcard]
        ELSE found

\* marshalerFromHeaderContentType as it would be if the fallback set the
\* marshaler and left contentType as the loop left it
ContentTypeFallbackKeepsType(r, values) ==
    LET found == contentTypeLoop(r, values, 1, EmptyString)
    IN  IF found.marshaler = Nil
        THEN [contentType |-> found.contentType, marshaler |-> r.mimeWildcard]
        ELSE found

RECURSIVE contentTypeLoopAbort(_, _, _, _)
\* the loop as it would be if a value that does not parse ended it (a break
\* or a return in the place of the continue)
contentTypeLoopAbort(r, values, i, contentType) ==
    IF i > Len(values) THEN [contentType |-> contentType, marshaler |-> Nil]
    ELSE LET parsed == ParseMediaType(values[i])
         IN  IF parsed.err # Nil
             THEN [contentType |-> parsed.mediatype, marshaler |-> Nil]
             ELSE IF parsed.mediatype \in DOMAIN r.mimeMap
             THEN [contentType |-> parsed.mediatype,
                   marshaler |-> r.mimeMap[parsed.mediatype]]
             ELSE contentTypeLoopAbort(r, values, i + 1, parsed.mediatype)

\* marshalerFromHeaderContentType as it would be if a value that does not
\* parse ended the negotiation
ContentTypeStopsAtParseError(r, values) ==
    LET found == contentTypeLoopAbort(r, values, 1, EmptyString)
    IN  IF found.marshaler = Nil
        THEN [contentType |-> Mime_Wildcard, marshaler |-> r.mimeWildcard]
        ELSE found

marshalerFromHeaderContentType(r, values) ==
    LET found == contentTypeLoop(r, values, 1, EmptyString)
    IN  IF found.marshaler = Nil
        THEN [contentType |-> Mime_Wildcard, marshaler |-> r.mimeWildcard]
        ELSE found

\* parseAcceptHeader as it would be if it cut the parameters off every piece,
\* as the Content-Type resolution does
parseAcceptHeaderStripsParameters(header) ==
    LET values == Split(header, ",")
    IN  [i \in DOMAIN values |-> TrimSpace(CutBefore(values[i], ";"))]

\* parseAcceptHeader as it would be if it dropped the white space only at the
\* left of every piece
parseAcceptHeaderTrimsLeft(header) ==
    LET values == Split(header, ",")
    IN  [i \in DOMAIN values |-> TrimLeft(values[i])]

parseAcceptHeader(header) ==
    LET values == Split(header, ",")
    IN  [i \in DOMAIN values |-> TrimSpace(values[i])]

RECURSIVE acceptInnerLoop(_, _, _, _)
\* the inner for loop of marshalerFromHeaderAccept from the j-th candidate on:
\* its break leaves the inner loop only
acceptInnerLoop(r, headerValues, j, marshaler) ==
    IF j > Len(headerValues) THEN marshaler
    ELSE IF headerValues[j] \in DOMAIN r.mimeMap
         THEN r.mimeMap[headerValues[j]]
    ELSE acceptInnerLoop(r, headerValues, j + 1, marshaler)

RECURSIVE acceptLoop(_, _, _, _)
\* the outer for loop of marshalerFromHeaderAccept from the i-th value on
acceptLoop(r, values, i, marshaler) ==
    IF i > Len(values) THEN marshaler
    ELSE acceptLoop(r, values, i + 1,
                    acceptInnerLoop(r, parseAcceptHeader(values[i]), 1, marshaler))

marshalerFromHeaderAccept(r, values) ==
    LET marshaler == acceptLoop(r, values, 1, Nil)
    IN  IF marshaler = Nil THEN r.mimeWildcard ELSE marshaler

\* req.Header["Content-Type"] is the argument
InboundForRequest(r, values) ==
    marshalerFromHeaderContentType(r, values)

\* resp.Header["Content-Type"] is the argument; the media type is dropped
InboundForResponse(r, values) ==
    marshalerFromHeaderContentType(r, values).marshaler

\* req.Header["Accept"] is the argument
OutboundForRequest(r, values) ==
    marshalerFromHeaderAccept(r, values)

-----------------------------------------------------------------------------
(* The codecs' methods.  A codec is a black box to the package: what a      *)
(* method returns depends on what it is given, and every call the package   *)
(* makes on a codec, on the request or on the response writer is recorded.  *)

\* marshaller.(codec.FormCodec) succeeds: for the codec New() stores under
\* Mime_MultipartPostForm and for form.New("json"); msgpack.Codec has the
\* base Marshaler methods only
ImplementsFormCodec(marshaller) ==
    marshaller \in {FormCodec, DefaultFormCodec, DefaultMultipartCodec}

\* the data a codec cannot decode
Malformed ==
    {"query: malformed", "body: malformed", "multipart: malformed",
     "uri: malformed"}

\* the values a codec cannot marshal
Unmarshalable ==
    {"chan int"}

ErrDecode == "codec: decode error"
ErrMarshal == "codec: marshal error"
ErrWrite == "http: write error"
ErrNotMultipart == "request Content-Type isn't multipart/form-data"
ErrNotSupported == "encoding: not supported marshaller(multipart/form-data)"

\* the error of a codec's Decode, or of its decoder's Decode, on data
Decode(marshaler, data) ==
    IF data \in Malformed THEN ErrDecode ELSE Nil

\* the bytes and the error of a codec's Marshal: the bytes are named by the
\* codec that made them and the value they stand for
Marshal(marshaler, value) ==
    IF value \in Unmarshalable
    THEN [data |-> <<>>, err |-> ErrMarshal]
    ELSE [data |-> <<marshaler, value>>, err |-> Nil]

\* msgpack.Codec.ContentType returns this for every value
MsgpackContentType == "application/x-msgpack; charset=utf-8"

\* the content type a codec other than msgpack.Codec declares
DeclaredContentType(marshaler) ==
    IF marshaler \in {DefaultJSONCodec, DefaultWildcardCodec}
    THEN "application/json; charset=utf-8"
    ELSE IF marshaler = DefaultMultipartCodec
    THEN "multipart/form-data; charset=utf-8"
    ELSE "application/x-www-form-urlencoded; charset=utf-8"

\* marshaller.ContentType(v)
ContentType(marshaler, value) ==
    IF marshaler = MsgpackCodec THEN MsgpackContentType
    ELSE DeclaredContentType(marshaler)

\* one call on a codec, on the request or on the response writer: the object,
\* the method, the arguments and the error returned
Event(obj, method, arg, err) ==
    [obj |-> obj, method |-> method, arg |-> arg, err |-> err]

\* req.ParseMultipartForm fails on a request with this MultipartForm
NoMultipartForm == "not multipart"

\* w.Header().Set("Content-Type", value)
HeaderSet(rw, value) ==
    [rw EXCEPT !.Header = value]

\* w.Write(data): a broken writer takes no bytes and returns an error
Write(rw, data) ==
    IF rw.broken THEN [w |-> rw, err |-> ErrWrite]
    ELSE [w |-> [rw EXCEPT !.Body = Append(@, data)], err |-> Nil]

-----------------------------------------------------------------------------
(* Bind and Render.  Each returns its error and the calls it made, Render   *)
(* the response writer as it leaves it as well.                             *)

\* a Decode call of a codec on data read from source, and what it returns
decodeWith(marshaler, source, data) ==
    [err |-> Decode(marshaler, data),
     trace |-> <<Event(marshaler, "Decode", <<source, data>>,
                       Decode(marshaler, data))>>]

BindQuery(r, request) ==
    decodeWith(r.mimeQuery, "req.URL.Query()", request.Query)

BindUri(r, raws) ==
    decodeWith(r.mimeUri, "raws", raws)

\* the last statement of Bind: marshaller.NewDecoder(req.Body).Decode(v)
bindBody(request, marshaller) ==
    [err |-> Decode(marshaller, request.Body),
     trace |-> <<Event(marshaller, "NewDecoder", <<"req.Body">>, Nil),
                 Event(marshaller, "Decoder.Decode", <<"req.Body", request.Body>>,
                       Decode(marshaller, request.Body))>>]

\* the multipart branch of Bind from req.ParseMultipartForm on
bindParsedMultipart(request, m) ==
    IF request.MultipartForm = NoMultipartForm
    THEN [err |-> ErrNotMultipart,
          trace |-> <<Event("req", "ParseMultipartForm", <<"defaultMemory">>,
                            ErrNotMultipart)>>]
    ELSE [err |-> Decode(m, request.MultipartForm),
          trace |-> <<Event("req", "ParseMultipartForm", <<"defaultMemory">>, Nil),
                      Event(m, "Decode",
                            <<"req.MultipartForm.Value", request.MultipartForm>>,
                            Decode(m, request.MultipartForm))>>]

\* the multipart branch of Bind as it would be if a codec that is no
\* FormCodec were used through its streaming decoder
bindMultipartFallsBack(request, marshaller) ==
    IF ~ImplementsFormCodec(marshaller)
    THEN bindBody(request, marshaller)
    ELSE bindParsedMultipart(request, marshaller)

\* the multipart branch of Bind
bindMultipart(request, marshaller) ==
    IF ~ImplementsFormCodec(marshaller)
    THEN [err |-> ErrNotSupported, trace |-> <<>>]
    ELSE bindParsedMultipart(request, marshaller)

\* Bind from the resolution on as it would be if the Content-Type header of
\* the request, and not the resolved MIME string, chose the multipart branch
bindInboundByHeader(request, inbound) ==
    IF \E i \in DOMAIN request.ContentType :
          ParseMediaType(request.ContentType[i]).mediatype = Mime_MultipartPostForm
    THEN bindMultipart(request, inbound.marshaler)
    ELSE bindBody(request, inbound.marshaler)

\* Bind from the resolution of the Content-Type on: inbound is what
\* InboundForRequest returned
bindInbound(request, inbound) ==
    IF inbound.contentType = Mime_MultipartPostForm
    THEN bindMultipart(request, inbound.marshaler)
    ELSE bindBody(request, inbound.marshaler)

\* Bind as it would be without the test of the method
BindIgnoresMethod(r, request) ==
    bindInbound(request, InboundForRequest(r, request.ContentType))

Bind(r, request) ==
    IF request.Method = "GET" THEN BindQuery(r, request)
    ELSE bindInbound(request, InboundForRequest(r, request.ContentType))

\* the calls of Render on a value that marshals: written is what w.Write
\* returned, with the writer as it left it
renderWritten(written, marshaller, value, data) ==
    [w |-> written.w,
     err |-> written.err,
     trace |-> <<Event(marshaller, "Marshal", <<value>>, Nil),
                 Event(marshaller, "ContentType", <<value>>, Nil),
                 Event("w", "Header().Set",
                       <<"Content-Type", ContentType(marshaller, value)>>, Nil),
                 Event("w", "Write", data, written.err)>>]

\* Render from Marshal on as it would be if the header were set before the
\* error of Marshal is looked at
renderMarshaledHeaderFirst(rw, marshaller, value, out) ==
    IF out.err # Nil
    THEN [w |-> HeaderSet(rw, ContentType(marshaller, value)),
          err |-> out.err,
          trace |-> <<Event(marshaller, "Marshal", <<value>>, out.err),
                      Event(marshaller, "ContentType", <<value>>, Nil),
                      Event("w", "Header().Set",
                            <<"Content-Type", ContentType(marshaller, value)>>,
                            Nil)>>]
    ELSE renderWritten(Write(HeaderSet(rw, ContentType(marshaller, value)),
                             out.data),
                       marshaller, value, out.data)

\* Render from Marshal on as it would be if the bytes were written before
\* the header is set
renderMarshaledWriteFirst(rw, marshaller, value, out) ==
    IF out.err # Nil
    THEN [w |-> rw, err |-> out.err,
          trace |-> <<Event(marshaller, "Marshal", <<value>>, out.err)>>]
    ELSE [w |-> HeaderSet(Write(rw, out.data).w, ContentType(marshaller, value)),
          err |-> Write(rw, out.data).err,
          trace |-> <<Event(marshaller, "Marshal", <<value>>, Nil),
                      Event("w", "Write", out.data, Write(rw, out.data).err),
                      Event(marshaller, "ContentType", <<value>>, Nil),
                      Event("w", "Header().Set",
                            <<"Content-Type", ContentType(marshaller, value)>>,
                            Nil)>>]

\* Render from Marshal on: out is what marshaller.Marshal(v) returned
renderMarshaled(rw, marshaller, value, out) ==
    IF out.err # Nil
    THEN [w |-> rw, err |-> out.err,
          trace |-> <<Event(marshaller, "Marshal", <<value>>, out.err)>>]
    ELSE renderWritten(Write(HeaderSet(rw, ContentType(marshaller, value)),
                             out.data),
                       marshaller, value, out.data)

\* Render from the resolution of the Accept header on
renderWith(rw, marshaller, value) ==
    renderMarshaled(rw, marshaller, value, Marshal(marshaller, value))

\* Render as it would be without the test for a nil value
RenderNoNilCheck(r, rw, request, value) ==
    renderWith(rw, OutboundForRequest(r, request.Accept), value)

Render(r, rw, request, value) ==
    IF value = Nil THEN [w |-> rw, err |-> Nil, trace |-> <<>>]
    ELSE renderWith(rw, OutboundForRequest(r, request.Accept), value)

\* Encode from Get on
encodeWith(marshaler, value) ==
    [data |-> Marshal(marshaler, value).data,
     err |-> Marshal(marshaler, value).err,
     trace |-> <<Event(marshaler, "Marshal", <<value>>,
                       Marshal(marshaler, value).err)>>]

Encode(r, contentType, value) ==
    encodeWith(Get(r, contentType), value)

-----------------------------------------------------------------------------
(* The state machine: a caller holding one Encoding calls its methods.      *)

\* the receiver's fields in the current state
enc ==
    [mimeMap |-> mimeMap, mimeQuery |-> mimeQuery, mimeUri |-> mimeUri,
     mimeWildcard |-> mimeWildcard]

\* the MIME strings callers pass to Get and Delete
MimeInputs ==
    {EmptyString, Mime_Wildcard, Mime_Query, Mime_Uri, Mime_JSON,
     Mime_MultipartPostForm, Mime_XML2}

\* the MIME strings callers pass to Register
RegisterMimeInputs ==
    {EmptyString, Mime_Wildcard, Mime_Query, Mime_Uri, Mime_JSON, Mime_XML2}

\* the codecs callers pass to Register
MarshalerInputs ==
    {Nil, MsgpackCodec, FormCodec}

NoValues == <<>>

\* the most header values of one name a request or response carries
MaxValues == 2

\* "text/xml; charset=UTF-8"
XMLWithCharset ==
    Mime_XML2 \o <<";", " ", "c", "h", "a", "r", "s", "e", "t", "=", "U", "T", "F", "-", "8">>

\* "Text/XML"
XMLUpperCase ==
    <<"T", "e", "x", "t", "/", "X", "M", "L">>

\* "text/xml; charset": a parameter without a value
XMLBadParam ==
    Mime_XML2 \o <<";", " ", "c", "h", "a", "r", "s", "e", "t">>

\* "text/plain, text/xml"
PlainThenXML ==
    Mime_Plain \o <<",", " ">> \o Mime_XML2

\* "application/json; charset=utf-8"
JSONWithCharset ==
    Mime_JSON \o <<";", " ", "c", "h", "a", "r", "s", "e", "t", "=", "u", "t", "f", "-", "8">>

\* " text/xml ,application/json"
XMLThenJSON ==
    <<" ">> \o Mime_XML2 \o <<" ", ",">> \o Mime_JSON

\* the Content-Type header values requests and responses carry
ContentTypeValues ==
    {Mime_JSON, Mime_MultipartPostForm, Mime_Plain, XMLWithCharset,
     XMLUpperCase, XMLBadParam}

\* the Accept header values requests carry
AcceptValues ==
    {Mime_JSON, Mime_MultipartPostForm, PlainThenXML, JSONWithCharset,
     XMLThenJSON}

\* http.Header[name]: no value (the header is absent) up to MaxValues values
HeaderLists(S) ==
    UNION {[1..n -> S] : n \in 0..MaxValues}

Called(op, mime, marshaler, values, err, contentType, ret) ==
    [op |-> op, mime |-> mime, marshaler |-> marshaler, values |-> values,
     err |-> err, contentType |-> contentType, ret |-> ret]

SetEncoding(r) ==
    /\ mimeMap' = r.mimeMap
    /\ mimeQuery' = r.mimeQuery
    /\ mimeUri' = r.mimeUri
    /\ mimeWildcard' = r.mimeWildcard

\* no request: the call in progress, if any, takes none
NoRequest ==
    [Method |-> "", Query |-> "", Body |-> "", MultipartForm |-> "",
     ContentType |-> <<>>, Accept |-> <<>>]

\* no response writer: the call in progress, if any, takes none
NoWriter ==
    [Header |-> Nil, Body |-> <<>>, broken |-> FALSE]

\* the goroutines of the callers that share the Encoding
NumThreads == 2

Threads ==
    1..NumThreads

\* a goroutine that is in no call of the Encoding
NoCall ==
    [pc |-> "idle", op |-> "", mime |-> EmptyString, request |-> NoRequest,
     value |-> Nil, writer |-> NoWriter, at |-> <<>>, result |-> <<>>]

\* no call is in progress and none has returned a result not yet taken
Idle ==
    Called("idle", EmptyString, Nil, NoValues, Nil, EmptyString, Nil)

Init ==
    /\ mimeMap = New.mimeMap
    /\ mimeQuery = New.mimeQuery
    /\ mimeUri = New.mimeUri
    /\ mimeWildcard = New.mimeWildcard
    /\ pre = New
    /\ call = Idle
    /\ req = NoRequest
    /\ payload = Nil
    /\ w = NoWriter
    /\ trace = <<>>
    /\ threads = [t \in Threads |-> NoCall]

DoRegister ==
    /\ call = Idle
    /\ UNCHANGED threads
    /\ \E mime \in RegisterMimeInputs, marshaler \in MarshalerInputs :
        LET res == Register(enc, mime, marshaler)
        IN  /\ SetEncoding(res.r)
            /\ pre' = enc
            /\ call' = Called("Register", mime, marshaler, NoValues, res.err,
                              EmptyString, Nil)
            /\ UNCHANGED <<req, payload, w, trace>>

DoGet ==
    /\ call = Idle
    /\ UNCHANGED threads
    /\ \E mime \in MimeInputs :
        /\ call' = Called("Get", mime, Nil, NoValues, Nil, EmptyString,
                          Get(enc, mime))
        /\ pre' = enc
        /\ UNCHANGED <<mimeMap, mimeQuery, mimeUri, mimeWildcard>>
        /\ UNCHANGED <<req, payload, w, trace>>

DoDelete ==
    /\ call = Idle
    /\ UNCHANGED threads
    /\ \E mime \in MimeInputs :
        LET res == Delete(enc, mime)
        IN  /\ SetEncoding(res.r)
            /\ pre' = enc
            /\ call' = Called("Delete", mime, Nil, NoValues, res.err,
                              EmptyString, Nil)
            /\ UNCHANGED <<req, payload, w, trace>>

DoInboundForRequest ==
    /\ call = Idle
    /\ UNCHANGED threads
    /\ \E values \in HeaderLists(ContentTypeValues) :
        LET res == InboundForRequest(enc, values)
        IN  /\ call' = Called("InboundForRequest", EmptyString, Nil, values, Nil,
                              res.contentType, res.marshaler)
            /\ pre' = enc
            /\ UNCHANGED <<mimeMap, mimeQuery, mimeUri, mimeWildcard>>
            /\ UNCHANGED <<req, payload, w, trace>>

DoInboundForResponse ==
    /\ call = Idle
    /\ UNCHANGED threads
    /\ \E values \in HeaderLists(ContentTypeValues) :
        /\ call' = Called("InboundForResponse", EmptyString, Nil, values, Nil,
                          EmptyString, InboundForResponse(enc, values))
        /\ pre' = enc
        /\ UNCHANGED <<mimeMap, mimeQuery, mimeUri, mimeWildcard>>
        /\ UNCHANGED <<req, payload, w, trace>>

DoOutboundForRequest ==
    /\ call = Idle
    /\ UNCHANGED threads
    /\ \E values \in HeaderLists(AcceptValues) :
        /\ call' = Called("OutboundForRequest", EmptyString, Nil, values, Nil,
                          EmptyString, OutboundForRequest(enc, values))
        /\ pre' = enc
        /\ UNCHANGED <<mimeMap, mimeQuery, mimeUri, mimeWildcard>>
        /\ UNCHANGED <<req, payload, w, trace>>

\* the caller takes what the call returned and is free to call again
Return ==
    /\ call # Idle
    /\ UNCHANGED threads
    /\ call' = Idle
    /\ pre' = enc
    /\ req' = NoRequest
    /\ payload' = Nil
    /\ w' = NoWriter
    /\ trace' = <<>>
    /\ UNCHANGED <<mimeMap, mimeQuery, mimeUri, mimeWildcard>>

Next ==
    \/ DoRegister
    \/ DoGet
    \/ DoDelete
    \/ DoInboundForRequest
    \/ DoInboundForResponse
    \/ DoOutboundForRequest
    \/ Return

Spec == Init /\ [][Next]_vars

-----------------------------------------------------------------------------
(* parseAcceptHeader on its own: a caller inside the package, such as the   *)
(* package's test, gives it one header value.                               *)

\* the characters the header values below are made of
HeaderChars ==
    {",", " ", "\t", "a"}

\* the length of the longest such header value
MaxHeaderLen == 4

\* "application/json,text/plain,   */*"
TestAcceptHeader ==
    Mime_JSON \o <<",">> \o Mime_Plain \o <<",", " ", " ", " ", "*", "/", "*">>

\* the header values given to parseAcceptHeader: every string over HeaderChars
\* up to MaxHeaderLen characters, the empty one among them, and the test's
AcceptHeaderInputs ==
    UNION {[1..n -> HeaderChars] : n \in 0..MaxHeaderLen} \cup {TestAcceptHeader}

DoParseAcceptHeader ==
    /\ call = Idle
    /\ UNCHANGED threads
    /\ \E header \in AcceptHeaderInputs :
        call' = Called("parseAcceptHeader", header, Nil,
                       parseAcceptHeader(header), Nil, EmptyString, Nil)
    /\ pre' = enc
    /\ UNCHANGED <<mimeMap, mimeQuery, mimeUri, mimeWildcard>>
    /\ UNCHANGED <<req, payload, w, trace>>

ParseNext ==
    \/ DoParseAcceptHeader
    \/ Return

ParseSpec == Init /\ [][ParseNext]_vars

-----------------------------------------------------------------------------
(* Bind and Render on their own: a server configures its Encoding and binds *)
(* requests and renders responses with it.                                  *)

\* the MIME strings the server registers codecs for
SetupMimeInputs ==
    {Mime_Query, Mime_Uri, Mime_Wildcard, Mime_MultipartPostForm}

\* the codecs the server registers
SetupMarshalerInputs ==
    {MsgpackCodec, FormCodec}

\* the MIME strings the server deletes
SetupDeleteInputs ==
    {Mime_MultipartPostForm, Mime_JSON}

Methods ==
    {"GET", "POST"}

QueryInputs ==
    {"query: id=foo&name=bar", "query: malformed"}

BodyInputs ==
    {"body: id=foo&name=bar", "body: malformed"}

MultipartInputs ==
    {"multipart: id=foo&name=bar", "multipart: malformed", NoMultipartForm}

\* the values Render and Encode are given: nil, a struct, and a value no codec
\* can marshal
RenderValues ==
    {Nil, "TestMode{foo, bar}", "chan int"}

\* the Content-Type values of the requests given to Bind
BindContentTypes ==
    {Mime_JSON, Mime_MultipartPostForm}

\* the Accept values of the requests given to Render
RenderAccepts ==
    {Mime_JSON, JSONWithCharset}

\* the requests given to Bind
BindRequests ==
    [Method : Methods, Query : QueryInputs, Body : BodyInputs,
     MultipartForm : MultipartInputs, ContentType : HeaderLists(BindContentTypes),
     Accept : {NoValues}]

\* the requests given to Render
RenderRequests ==
    {[NoRequest EXCEPT !.Method = m, !.Accept = a] :
        m \in Methods, a \in HeaderLists(RenderAccepts)}

\* the response writers given to Render: nothing set, nothing written
Writers ==
    {[NoWriter EXCEPT !.broken = b] : b \in BOOLEAN}

SetupRegister ==
    /\ call = Idle
    /\ UNCHANGED threads
    /\ \E mime \in SetupMimeInputs, marshaler \in SetupMarshalerInputs :
        LET res == Register(enc, mime, marshaler)
        IN  /\ SetEncoding(res.r)
            /\ pre' = enc
            /\ call' = Called("Register", mime, marshaler, NoValues, res.err,
                              EmptyString, Nil)
            /\ UNCHANGED <<req, payload, w, trace>>

SetupDelete ==
    /\ call = Idle
    /\ UNCHANGED threads
    /\ \E mime \in SetupDeleteInputs :
        LET res == Delete(enc, mime)
        IN  /\ SetEncoding(res.r)
            /\ pre' = enc
            /\ call' = Called("Delete", mime, Nil, NoValues, res.err,
                              EmptyString, Nil)
            /\ UNCHANGED <<req, payload, w, trace>>

DoBind ==
    /\ call = Idle
    /\ UNCHANGED threads
    /\ \E request \in BindRequests :
        LET res == Bind(enc, request)
        IN  /\ call' = Called("Bind", EmptyString, Nil, request.ContentType,
                              res.err, EmptyString, Nil)
            /\ req' = request
            /\ trace' = res.trace
    /\ pre' = enc
    /\ UNCHANGED <<mimeMap, mimeQuery, mimeUri, mimeWildcard, payload, w>>

DoBindQuery ==
    /\ call = Idle
    /\ UNCHANGED threads
    /\ \E m \in Methods, q \in QueryInputs :
        LET request == [NoRequest EXCEPT !.Method = m, !.Query = q]
            res == BindQuery(enc, request)
        IN  /\ call' = Called("BindQuery", EmptyString, Nil, NoValues, res.err,
                              EmptyString, Nil)
            /\ req' = request
            /\ trace' = res.trace
    /\ pre' = enc
    /\ UNCHANGED <<mimeMap, mimeQuery, mimeUri, mimeWildcard, payload, w>>

DoBindUri ==
    /\ call = Idle
    /\ UNCHANGED threads
    /\ \E raws \in {"uri: id=foo", "uri: malformed"} :
        LET res == BindUri(enc, raws)
        IN  /\ call' = Called("BindUri", EmptyString, Nil, NoValues, res.err,
                              EmptyString, Nil)
            /\ payload' = raws
            /\ trace' = res.trace
    /\ pre' = enc
    /\ UNCHANGED <<mimeMap, mimeQuery, mimeUri, mimeWildcard, req, w>>

DoRender ==
    /\ call = Idle
    /\ UNCHANGED threads
    /\ \E rw \in Writers, request \in RenderRequests, value \in RenderValues :
        LET res == Render(enc, rw, request, value)
        IN  /\ call' = Called("Render", EmptyString, Nil, request.Accept, res.err,
                              EmptyString, Nil)
            /\ req' = request
            /\ payload' = value
            /\ w' = res.w
            /\ trace' = res.trace
    /\ pre' = enc
    /\ UNCHANGED <<mimeMap, mimeQuery, mimeUri, mimeWildcard>>

DoEncode ==
    /\ call = Idle
    /\ UNCHANGED threads
    /\ \E contentType \in {Mime_JSON, Mime_Plain}, value \in RenderValues :
        LET res == Encode(enc, contentType, value)
        IN  /\ call' = Called("Encode", contentType, Nil, NoValues, res.err,
                              EmptyString, res.data)
            /\ payload' = value
            /\ trace' = res.trace
    /\ pre' = enc
    /\ UNCHANGED <<mimeMap, mimeQuery, mimeUri, mimeWildcard, req, w>>

ServeNext ==
    \/ SetupRegister
    \/ SetupDelete
    \/ DoBind
    \/ DoBindQuery
    \/ DoBindUri
    \/ DoRender
    \/ DoEncode
    \/ Return

ServeSpec == Init /\ [][ServeNext]_vars

-----------------------------------------------------------------------------
(* Concurrent callers: the Encoding is configured first and then shared by  *)
(* goroutines that call its reading methods; no Register or Delete runs     *)
(* while they do.  A call is entered, runs and returns in three steps, and  *)
(* the steps of the goroutines interleave.                                  *)

\* the Encodings the goroutines share: New() as it is and after one call
SettledEncodings ==
    {New,
     Delete(New, Mime_JSON).r,
     Register(New, Mime_Wildcard, MsgpackCodec).r,
     Register(New, Mime_Query, FormCodec).r}

\* a goroutine that has entered the call of op with these arguments
CallOf(op, mime, request, value) ==
    [NoCall EXCEPT !.pc = "called", !.op = op, !.mime = mime,
                   !.request = request, !.value = value]

\* a request with this method, these Content-Type values and these Accept values
RequestOf(method, contentType, accept) ==
    [Method |-> method, Query |-> "query: id=foo&name=bar",
     Body |-> "body: id=foo&name=bar",
     MultipartForm |-> "multipart: id=foo&name=bar",
     ContentType |-> contentType, Accept |-> accept]

\* the calls the goroutines make
ConcurrentCalls ==
    {CallOf("Get", m, NoRequest, Nil) : m \in {Mime_JSON, Mime_Plain}}
    \cup {CallOf(op, EmptyString, RequestOf("POST", <<ct>>, NoValues), Nil) :
            op \in {"InboundForRequest", "InboundForResponse", "Bind"},
            ct \in {Mime_JSON, Mime_Plain}}
    \cup {CallOf(op, EmptyString, RequestOf("GET", <<Mime_JSON>>, <<Mime_JSON>>),
                 "TestMode{foo, bar}") :
            op \in {"OutboundForRequest", "Bind", "BindQuery", "Render"}}
    \cup {CallOf("BindUri", EmptyString, NoRequest, "uri: id=foo"),
          CallOf("Encode", Mime_JSON, NoRequest, "TestMode{foo, bar}")}
    \cup {CallOf("Bind", EmptyString,
                 [RequestOf("POST", <<Mime_JSON>>, NoValues)
                     EXCEPT !.Body = "body: malformed"], Nil),
          CallOf("Render", EmptyString,
                 RequestOf("GET", <<Mime_JSON>>, <<Mime_JSON>>), "chan int")}

\* what a call returns and does outside the Encoding
ResultOf(ret, contentType, err, events, rw) ==
    [ret |-> ret, contentType |-> contentType, err |-> err, trace |-> events,
     w |-> rw]

\* the result of a goroutine's call c on the Encoding r
OpResult(r, c) ==
    CASE c.op = "Get" ->
            ResultOf(Get(r, c.mime), EmptyString, Nil, <<>>, c.writer)
      [] c.op = "InboundForRequest" ->
            ResultOf(InboundForRequest(r, c.request.ContentType).marshaler,
                     InboundForRequest(r, c.request.ContentType).contentType,
                     Nil, <<>>, c.writer)
      [] c.op = "InboundForResponse" ->
            ResultOf(InboundForResponse(r, c.request.ContentType), EmptyString,
                     Nil, <<>>, c.writer)
      [] c.op = "OutboundForRequest" ->
            ResultOf(OutboundForRequest(r, c.request.Accept), EmptyString, Nil,
                     <<>>, c.writer)
      [] c.op = "Bind" ->
            ResultOf(Nil, EmptyString, Bind(r, c.request).err,
                     Bind(r, c.request).trace, c.writer)
      [] c.op = "BindQuery" ->
            ResultOf(Nil, EmptyString, BindQuery(r, c.request).err,
                     BindQuery(r, c.request).trace, c.writer)
      [] c.op = "BindUri" ->
            ResultOf(Nil, EmptyString, BindUri(r, c.value).err,
                     BindUri(r, c.value).trace, c.writer)
      [] c.op = "Render" ->
            ResultOf(Nil, EmptyString,
                     Render(r, c.writer, c.request, c.value).err,
                     Render(r, c.writer, c.request, c.value).trace,
                     Render(r, c.writer, c.request, c.value).w)
      [] c.op = "Encode" ->
            ResultOf(Encode(r, c.mime, c.value).data, EmptyString,
                     Encode(r, c.mime, c.value).err,
                     Encode(r, c.mime, c.value).trace, c.writer)

ConcurrentInit ==
    /\ \E r \in SettledEncodings :
        /\ mimeMap = r.mimeMap
        /\ mimeQuery = r.mimeQuery
        /\ mimeUri = r.mimeUri
        /\ mimeWildcard = r.mimeWildcard
        /\ pre = r
    /\ call = Idle
    /\ req = NoRequest
    /\ payload = Nil
    /\ w = NoWriter
    /\ trace = <<>>
    /\ threads = [t \in Threads |-> NoCall]

\* goroutine t enters a call; at is the Encoding as it is then
ThreadCall(t) ==
    /\ threads[t].pc = "idle"
    /\ \E c \in ConcurrentCalls :
        threads' = [threads EXCEPT ![t] = [c EXCEPT !.at = enc]]
    /\ UNCHANGED <<mimeMap, mimeQuery, mimeUri, mimeWildcard, pre, call, req,
                   payload, w, trace>>

\* the call of goroutine t as it would be if Get stored the wildcard codec
\* under a MIME string it does not find, to find it sooner the next time
ThreadRunCachesFallback(t) ==
    /\ threads[t].pc = "called"
    /\ threads' = [threads EXCEPT ![t] =
                      [@ EXCEPT !.pc = "done",
                                !.result = OpResult(enc, threads[t])]]
    /\ mimeMap' = IF threads[t].op = "Get"
                     /\ threads[t].mime \notin DOMAIN mimeMap
                     /\ threads[t].mime \notin {Mime_Query, Mime_Uri, Mime_Wildcard}
                  THEN MapSet(mimeMap, threads[t].mime, mimeWildcard)
                  ELSE mimeMap
    /\ UNCHANGED <<mimeQuery, mimeUri, mimeWildcard, pre, call, req, payload, w,
                   trace>>

\* the call of goroutine t runs: it reads the Encoding and assigns to none of
\* its fields
ThreadRun(t) ==
    /\ threads[t].pc = "called"
    /\ threads' = [threads EXCEPT ![t] =
                      [@ EXCEPT !.pc = "done",
                                !.result = OpResult(enc, threads[t])]]
    /\ UNCHANGED <<mimeMap, mimeQuery, mimeUri, mimeWildcard, pre, call, req,
                   payload, w, trace>>

\* the call of goroutine t returns
ThreadReturn(t) ==
    /\ threads[t].pc = "done"
    /\ threads' = [threads EXCEPT ![t] = NoCall]
    /\ UNCHANGED <<mimeMap, mimeQuery, mimeUri, mimeWildcard, pre, call, req,
                   payload, w, trace>>

ConcurrentNext ==
    \E t \in Threads :
        \/ ThreadCall(t)
        \/ ThreadRun(t)
        \/ ThreadReturn(t)

ConcurrentSpec == ConcurrentInit /\ [][ConcurrentNext]_vars

-----------------------------------------------------------------------------
(* The properties of the registry.                                          *)

Reserved ==
    {Mime_Wildcard, Mime_Query, Mime_Uri}

\* Register was called with a MIME string and a marshaler it cannot store:
\* the query slot takes a FormMarshaler only, the uri slot a UriMarshaler only
LacksCapability(mime, marshaler) ==
    \/ mime = Mime_Query /\ ~ImplementsFormMarshaler(marshaler)
    \/ mime = Mime_Uri /\ ~ImplementsUriMarshaler(marshaler)

\* C1: Register(T, C) with T not empty and C not nil fails exactly when T is
\* the query or the uri MIME string and C lacks the capability of that slot;
\* when it succeeds, Get(T) on the registry it leaves returns C itself, also
\* when T had another codec before and when T is "*".
C1_RegisterThenGet ==
    (call.op = "Register" /\ call.mime # EmptyString /\ call.marshaler # Nil) =>
        /\ call.err # Nil <=> LacksCapability(call.mime, call.marshaler)
        /\ call.err = Nil => Get(enc, call.mime) = call.marshaler

\* a MIME string registered by New() has just been registered again with
\* another codec, and Get returns the new one
C1_Witness ==
    /\ call.op = "Register"
    /\ call.err = Nil
    /\ call.mime = Mime_JSON
    /\ Mime_JSON \in DOMAIN pre.mimeMap
    /\ pre.mimeMap[Mime_JSON] = DefaultJSONCodec
    /\ call.marshaler = MsgpackCodec
    /\ Get(enc, Mime_JSON) = MsgpackCodec

\* C2: in every state reached from New() by Register and Delete calls, the
\* three slots are not nil and Get returns a codec that is not nil for every
\* MIME string: reserved, registered, unregistered or empty.
C2_GetNeverNil ==
    /\ mimeWildcard # Nil
    /\ mimeQuery # Nil
    /\ mimeUri # Nil
    /\ \A mime \in MimeInputs \cup {Mime_Plain, Mime_PostForm} : Get(enc, mime) # Nil
    /\ call.op = "Get" => call.ret # Nil

\* Get of a MIME string that was deleted, after the wildcard was replaced
C2_Witness ==
    /\ call.op = "Get"
    /\ call.mime = Mime_JSON
    /\ Mime_JSON \notin DOMAIN mimeMap
    /\ mimeWildcard = MsgpackCodec
    /\ call.ret = MsgpackCodec

\* C3: Delete of "*", of the query or of the uri MIME string returns an error
\* and leaves the map and the three slots as they were.
C3_DeleteReservedFails ==
    (call.op = "Delete" /\ call.mime \in Reserved) =>
        /\ call.err # Nil
        /\ enc = pre

\* Delete("*") has failed on a registry whose wildcard a caller had replaced
C3_Witness ==
    /\ call.op = "Delete"
    /\ call.mime = Mime_Wildcard
    /\ call.err = ErrCantDelete
    /\ mimeWildcard = FormCodec

\* C4: Register with an empty MIME string or a nil marshaler returns an error,
\* whatever the other argument, and leaves the registry as it was.
C4_RegisterInvalidArgument ==
    (call.op = "Register" /\ (call.mime = EmptyString \/ call.marshaler = Nil)) =>
        /\ call.err # Nil
        /\ enc = pre

\* Register of a reserved MIME string with a nil marshaler has failed
C4_Witness ==
    /\ call.op = "Register"
    /\ call.mime = Mime_Uri
    /\ call.marshaler = Nil
    /\ call.err = ErrNilMarshaler
    /\ mimeUri = DefaultUriCodec

\* C5: Register of the query (uri) MIME string with a marshaler that is no
\* FormMarshaler (UriMarshaler) returns an error and leaves the whole registry
\* as it was; with one that is, it succeeds and replaces that slot and
\* nothing else.
C5_ReservedSlotCapability ==
    (call.op = "Register" /\ call.marshaler # Nil
        /\ call.mime \in {Mime_Query, Mime_Uri}) =>
        IF LacksCapability(call.mime, call.marshaler)
        THEN /\ call.err # Nil
             /\ enc = pre
             /\ Get(enc, call.mime) = Get(pre, call.mime)
        ELSE /\ call.err = Nil
             /\ enc = IF call.mime = Mime_Query
                      THEN [pre EXCEPT !.mimeQuery = call.marshaler]
                      ELSE [pre EXCEPT !.mimeUri = call.marshaler]

\* the query slot holds a codec a caller registered, and a later Register of
\* the query MIME string with a codec that is no FormMarshaler has failed
C5_Witness ==
    /\ call.op = "Register"
    /\ call.mime = Mime_Query
    /\ call.marshaler = MsgpackCodec
    /\ call.err = ErrNotFormMarshaler
    /\ mimeQuery = FormCodec

\* C6: Delete of a MIME string that is not reserved succeeds whether or not it
\* is registered; afterwards Get of it returns the wildcard codec, and every
\* other entry of the map and the three slots are as they were.
C6_DeleteFrame ==
    (call.op = "Delete" /\ call.mime \notin Reserved) =>
        /\ call.err = Nil
        /\ Get(enc, call.mime) = mimeWildcard
        /\ DOMAIN mimeMap \ {call.mime} = DOMAIN pre.mimeMap \ {call.mime}
        /\ \A k \in DOMAIN mimeMap \ {call.mime} : mimeMap[k] = pre.mimeMap[k]
        /\ mimeWildcard = pre.mimeWildcard
        /\ mimeQuery = pre.mimeQuery
        /\ mimeUri = pre.mimeUri

\* a registered MIME string has been deleted, others staying registered
C6_Witness ==
    /\ call.op = "Delete"
    /\ call.mime = Mime_JSON
    /\ Mime_JSON \in DOMAIN pre.mimeMap
    /\ Mime_JSON \notin DOMAIN mimeMap
    /\ Mime_XML2 \in DOMAIN mimeMap
    /\ call.err = Nil

\* C7: the map never has a key "*", query or uri, and Register of one of the
\* three changes its slot only: the map and the two other slots stay.
C7_ReservedNotInMap ==
    /\ DOMAIN mimeMap \cap Reserved = {}
    /\ (call.op = "Register" /\ call.mime \in Reserved) =>
        /\ mimeMap = pre.mimeMap
        /\ call.mime # Mime_Wildcard => mimeWildcard = pre.mimeWildcard
        /\ call.mime # Mime_Query => mimeQuery = pre.mimeQuery
        /\ call.mime # Mime_Uri => mimeUri = pre.mimeUri

\* Register("*", C) has replaced the wildcard slot
C7_Witness ==
    /\ call.op = "Register"
    /\ call.mime = Mime_Wildcard
    /\ call.err = Nil
    /\ mimeWildcard = MsgpackCodec
    /\ pre.mimeWildcard = DefaultWildcardCodec

-----------------------------------------------------------------------------
(* The properties of the negotiation.                                       *)

\* the bare media type of a Content-Type value: what stands before the first
\* ";", in lower case, without the white space around it
BareMediaType(v) ==
    TrimSpace(ToLower(CutBefore(v, ";")))

\* every Content-Type value of the model with its bare media type and with
\* whether mime.ParseMediaType accepts it
ContentTypeTable ==
    [v \in ContentTypeValues |->
        [bare |-> BareMediaType(v), ok |-> ParseMediaType(v).err = Nil]]

\* the Content-Type value v parses and its bare media type is a key of the map
HasEntry(r, v) ==
    /\ ContentTypeTable[v].ok
    /\ ContentTypeTable[v].bare \in DOMAIN r.mimeMap

\* the least number of a set of numbers that is not empty
Least(S) ==
    CHOOSE i \in S : \A j \in S : i <= j

\* the place of the first Content-Type value with an entry, 0 when none has one
FirstWithEntry(r, values) ==
    LET having == {i \in DOMAIN values : HasEntry(r, values[i])}
    IN  IF having = {} THEN 0 ELSE Least(having)

RECURSIVE Candidates(_)
\* the candidates of a list of Accept values, in order: the pieces between
\* the commas of each value, trimmed
Candidates(values) ==
    IF values = <<>> THEN <<>>
    ELSE parseAcceptHeader(Head(values)) \o Candidates(Tail(values))

\* the place of the first candidate that is a key of the map, 0 when none is
FirstCandidateWithEntry(r, cands) ==
    LET having == {i \in DOMAIN cands : cands[i] \in DOMAIN r.mimeMap}
    IN  IF having = {} THEN 0 ELSE Least(having)

InboundOps ==
    {"InboundForRequest", "InboundForResponse"}

C9_AcceptFirstCandidateWins ==
    call.op = "OutboundForRequest" =>
        LET cands == Candidates(call.values)
            first == FirstCandidateWithEntry(enc, cands)
        IN  first # 0 => call.ret = mimeMap[cands[first]]

ExactMediaType(v) ==
    TrimSpace(CutBefore(v, ";"))

\* every Content-Type value of the model with its bare media type as written
ExactTable ==
    [v \in ContentTypeValues |-> ExactMediaType(v)]

\* the place of the first Content-Type value that parses and whose bare media
\* type, as written, is a key of the map; 0 when there is none
FirstWithExactEntry(r, values) ==
    LET having == {i \in DOMAIN values :
                      /\ ContentTypeTable[values[i]].ok
                      /\ ExactTable[values[i]] \in DOMAIN r.mimeMap}
    IN  IF having = {} THEN 0 ELSE Least(having)

\* C11: Content-Type resolution compares the bare media type with the keys of
\* the map letter for letter: a value that differs from a key in letter case
\* only, or that is a glob such as application/*, selects no codec (the
\* wildcard codec is returned), and a key is selected by the value that spells
\* it the same way.
C11_ContentTypeCaseSensitive ==
    call.op \in InboundOps =>
        LET first == FirstWithExactEntry(enc, call.values)
        IN  IF first = 0
            THEN call.ret = mimeWildcard
            ELSE call.ret = mimeMap[ExactTable[call.values[first]]]

\* the Content-Type values of a list that mime.ParseMediaType accepts, in order
Parseable(values) ==
    SelectSeq(values, LAMBDA v : ContentTypeTable[v].ok)

\* C12: a Content-Type value that does not parse is passed over: the media
\* type and the codec resolved for a list of values are those resolved for
\* the list without its unparseable values, and no error is returned.
C12_UnparseableSkipped ==
    call.op \in InboundOps =>
        LET clean == marshalerFromHeaderContentType(enc, Parseable(call.values))
        IN  /\ call.ret = clean.marshaler
            /\ call.op = "InboundForRequest" =>
                  call.contentType = clean.contentType
            /\ call.ret # Nil
            /\ call.err = Nil

\* a value with a parameter that has no value stands before a registered
\* value: the registered one is resolved
C12_Witness ==
    /\ call.op = "InboundForRequest"
    /\ call.values = <<XMLBadParam, Mime_JSON>>
    /\ ~ContentTypeTable[XMLBadParam].ok
    /\ Mime_JSON \in DOMAIN mimeMap
    /\ call.contentType = Mime_JSON
    /\ call.ret = mimeMap[Mime_JSON]
    /\ call.ret # mimeWildcard

-----------------------------------------------------------------------------
(* The properties of the Accept header.                                     *)

\* the places of the commas of a header value
CommaPlaces(header) ==
    {i \in DOMAIN header : header[i] = ","}

\* the place of the k-th comma of a header value; 0 stands for the comma
\* before the first piece and Len(header) + 1 for the one after the last
CommaPlace(header, k) ==
    IF k = 0 THEN 0
    ELSE IF k > Cardinality(CommaPlaces(header)) THEN Len(header) + 1
    ELSE CHOOSE i \in CommaPlaces(header) :
            Cardinality({j \in CommaPlaces(header) : j <= i}) = k

\* the k-th piece of a header value: what stands between two commas
Piece(header, k) ==
    SubSeq(header, CommaPlace(header, k - 1) + 1, CommaPlace(header, k) - 1)

\* the greatest number of a set of numbers that is not empty
Greatest(S) ==
    CHOOSE i \in S : \A j \in S : j <= i

\* a string without the white space at its two ends
Trimmed(s) ==
    LET inked == {i \in DOMAIN s : ~IsSpace(s[i])}
    IN  IF inked = {} THEN <<>> ELSE SubSeq(s, Least(inked), Greatest(inked))

\* every Accept value of the model with the set of its pieces, trimmed
AcceptTable ==
    [v \in AcceptValues |->
        {Trimmed(Piece(v, k)) : k \in 1..(Cardinality(CommaPlaces(v)) + 1)}]

\* C20: an Accept candidate is compared with the keys of the map as the whole
\* trimmed piece, parameters included: when no whole piece of any Accept value
\* is a key, the wildcard codec is returned, also when a piece without its
\* ";" parameters would be a key.
C20_AcceptParametersKept ==
    call.op = "OutboundForRequest" =>
        ((\A i \in DOMAIN call.values :
              AcceptTable[call.values[i]] \cap DOMAIN mimeMap = {})
            => call.ret = mimeWildcard)

\* application/json is registered with a codec other than the wildcard codec,
\* and the only Accept value is "application/json; charset=utf-8"
C20_Witness ==
    /\ call.op = "OutboundForRequest"
    /\ call.values = <<JSONWithCharset>>
    /\ CutBefore(JSONWithCharset, ";") \in DOMAIN mimeMap
    /\ mimeMap[Mime_JSON] # mimeWildcard
    /\ call.ret = mimeWildcard

\* C19: parseAcceptHeader cuts the header value at every comma and trims the
\* white space around each piece, in order: a value with n commas gives n + 1
\* candidates, empty ones among them, and the empty value gives one empty
\* candidate.
C19_ParseAcceptHeader ==
    call.op = "parseAcceptHeader" =>
        /\ Len(call.values) = Cardinality(CommaPlaces(call.mime)) + 1
        /\ \A k \in 1..Len(call.values) :
              call.values[k] = Trimmed(Piece(call.mime, k))
        /\ call.mime = EmptyString => call.values = <<EmptyString>>

\* the header value of the package's test has given its three candidates
C19_Witness ==
    /\ call.op = "parseAcceptHeader"
    /\ call.mime = TestAcceptHeader
    /\ call.values = <<Mime_JSON, Mime_Plain, <<"*", "/", "*">> >>

-----------------------------------------------------------------------------
(* The properties of Bind and Render.                                       *)

\* C13: Bind on a GET request decodes the URL query with the codec in the
\* query slot and returns what that Decode returns, whatever Content-Type
\* values the request carries; that one Decode is the only call Bind makes,
\* so neither the Content-Type header's codec nor the body is used.
C13_BindGetUsesQuerySlot ==
    (call.op = "Bind" /\ req.Method = "GET") =>
        /\ call.err = Decode(mimeQuery, req.Query)
        /\ trace = <<Event(mimeQuery, "Decode",
                           <<"req.URL.Query()", req.Query>>, call.err)>>

\* a GET request with the Content-Type multipart/form-data and a body no
\* codec can decode is bound from its query by the codec a caller registered
\* in the query slot
C13_Witness ==
    /\ call.op = "Bind"
    /\ req.Method = "GET"
    /\ req.ContentType = <<Mime_MultipartPostForm>>
    /\ Mime_MultipartPostForm \in DOMAIN mimeMap
    /\ req.Body = "body: malformed"
    /\ req.Query = "query: id=foo&name=bar"
    /\ mimeQuery = FormCodec
    /\ call.err = Nil
    /\ trace[1].obj = FormCodec

\* the Content-Type of the request resolves to multipart/form-data: the first
\* value with an entry in the map is that one
ResolvesToMultipart(r, values) ==
    /\ FirstWithEntry(r, values) # 0
    /\ ContentTypeTable[values[FirstWithEntry(r, values)]].bare
          = Mime_MultipartPostForm

\* the methods of a codec's streaming decoder
StreamingDecoder ==
    {"NewDecoder", "Decoder.Decode"}

C15_RenderNil ==
    (call.op = "Render" /\ payload = Nil) =>
        /\ call.err = Nil
        /\ w.Header = Nil
        /\ w.Body = <<>>
        /\ trace = <<>>

\* Render of nil on a registry whose wildcard codec a caller replaced, for a
\* request with an Accept header
C15_Witness ==
    /\ call.op = "Render"
    /\ payload = Nil
    /\ req.Accept = <<Mime_JSON>>
    /\ mimeWildcard = MsgpackCodec
    /\ call.err = Nil
    /\ w.Body = <<>>

\* the calls of a trace made on the response writer, in order
OnWriter(events) ==
    SelectSeq(events, LAMBDA e : e.obj = "w")

\* C16: when Marshal of the codec resolved from the Accept header fails,
\* Render returns Marshal's error, and the response is as it was: no
\* Content-Type header is set and no bytes are written.
C16_MarshalErrorLeavesResponse ==
    (call.op = "Render" /\ payload # Nil
        /\ Marshal(OutboundForRequest(enc, req.Accept), payload).err # Nil) =>
        /\ call.err = Marshal(OutboundForRequest(enc, req.Accept), payload).err
        /\ w.Header = Nil
        /\ w.Body = <<>>
        /\ OnWriter(trace) = <<>>

\* Render of a value no codec can marshal has failed
C16_Witness ==
    /\ call.op = "Render"
    /\ payload = "chan int"
    /\ call.err = ErrMarshal
    /\ trace[1].method = "Marshal"
    /\ trace[1].err = ErrMarshal
    /\ w.Header = Nil

\* what C17 says of a Render whose codec m marshals the value: the two calls
\* on the writer are the setting of the header to m's content type for the
\* value and, after it, one Write of the bytes m marshalled; a failed Write
\* returns its error and leaves the header set
RenderedBy(m) ==
    /\ Event(m, "ContentType", <<payload>>, Nil) \in {trace[i] : i \in DOMAIN trace}
    /\ OnWriter(trace) =
          <<Event("w", "Header().Set",
                  <<"Content-Type", ContentType(m, payload)>>, Nil),
            Event("w", "Write", Marshal(m, payload).data, call.err)>>
    /\ w.Header = ContentType(m, payload)
    /\ IF w.broken
       THEN call.err = ErrWrite /\ w.Body = <<>>
       ELSE call.err = Nil /\ w.Body = <<Marshal(m, payload).data>>

\* C17: when Marshal succeeds on a value that is not nil, Render sets the
\* Content-Type header to what ContentType(v) of the codec resolved from the
\* Accept header returns and then writes the marshalled bytes, once; when the
\* write fails Render returns its error and the header stays set.
C17_RenderHeaderThenWrite ==
    (call.op = "Render" /\ payload # Nil
        /\ Marshal(OutboundForRequest(enc, req.Accept), payload).err = Nil) =>
        RenderedBy(OutboundForRequest(enc, req.Accept))

\* the package's test: Accept "application/json; charset=utf-8" and a struct;
\* the wildcard codec marshals it, the header is set and the bytes written
C17_Witness ==
    /\ call.op = "Render"
    /\ req.Accept = <<JSONWithCharset>>
    /\ payload = "TestMode{foo, bar}"
    /\ mimeWildcard = DefaultWildcardCodec
    /\ call.err = Nil
    /\ w.Header = "application/json; charset=utf-8"
    /\ w.Body = << <<DefaultWildcardCodec, "TestMode{foo, bar}">> >>
    /\ Len(trace) = 4

-----------------------------------------------------------------------------
(* The properties of concurrent callers.                                    *)

\* C18: the reading methods (Get, InboundForRequest, InboundForResponse,
\* OutboundForRequest, Bind, BindQuery, BindUri, Render, Encode) leave the map
\* and the three slots as they are, so that, however the calls of concurrent
\* goroutines interleave, the Encoding is during every call what it was when
\* the call was entered, and the call returns what it returns when it runs
\* alone on that Encoding.
C18_ReadOnlyCalls ==
    \A t \in Threads :
        /\ threads[t].pc # "idle" => enc = threads[t].at
        /\ threads[t].pc = "done" =>
              threads[t].result = OpResult(threads[t].at, threads[t])

\* a Bind has failed on a malformed body while a Get of an unregistered MIME
\* string, entered before it ran, is still to run, on an Encoding whose
\* wildcard was replaced
C18_Witness ==
    /\ threads[1].pc = "done"
    /\ threads[1].op = "Bind"
    /\ threads[1].request.Body = "body: malformed"
    /\ threads[1].result.err # Nil
    /\ threads[2].pc = "called"
    /\ threads[2].op = "Get"
    /\ threads[2].mime = Mime_Plain
    /\ mimeWildcard = MsgpackCodec

-----------------------------------------------------------------------------
(* The MIME string that Content-Type resolution returns and the branch of   *)
(* Bind.                                                                    *)

\* the calls a Bind made belong to its multipart branch: the multipart form
\* was asked for, or the codec was refused before any call
OnMultipartPath ==
    \/ call.err = ErrNotSupported
    \/ \E i \in DOMAIN trace : trace[i].method = "ParseMultipartForm"

\* the calls a Bind made are those of the streaming decoder of codec m over
\* the body of the request, and Bind returned what the decoder returned
DecodedFromBodyBy(m) ==
    /\ call.err = Decode(m, req.Body)
    /\ trace = <<Event(m, "NewDecoder", <<"req.Body">>, Nil),
                 Event(m, "Decoder.Decode", <<"req.Body", req.Body>>, call.err)>>

\* every Content-Type value of the request is multipart/form-data, and there
\* is one
OnlyMultipartValues ==
    /\ req.ContentType # NoValues
    /\ \A i \in DOMAIN req.ContentType :
          req.ContentType[i] = Mime_MultipartPostForm

\* the codec that the resolution of these Content-Type values returns is the
\* one Get returns for the MIME string that the resolution returns
ResolvedPairAgreesWithGet(r, values) ==
    InboundForRequest(r, values).marshaler
        = Get(r, InboundForRequest(r, values).contentType)

\* C21: a Bind of a request that is no GET takes the multipart branch exactly
\* when the resolution of its Content-Type returns "multipart/form-data", and
\* then that string is a key of the map; when it is no key of the map (it was
\* deleted), a request with the Content-Type multipart/form-data resolves to
\* "*", is decoded by the streaming decoder of the wildcard codec over the
\* body and is never refused as not supported; and the codec the resolution
\* returns is always the one Get returns for the MIME string it returns, for
\* the request of the Bind and, on every Encoding a server has between two
\* calls, for every list of Content-Type values.
C21_MultipartPathByResolvedType ==
    /\ call = Idle =>
          \A values \in HeaderLists(ContentTypeValues) :
              ResolvedPairAgreesWithGet(enc, values)
    /\ (call.op = "Bind" /\ req.Method # "GET") =>
           /\ OnMultipartPath <=>
                 InboundForRequest(enc, req.ContentType).contentType
                    = Mime_MultipartPostForm
           /\ OnMultipartPath => Mime_MultipartPostForm \in DOMAIN mimeMap
           /\ (Mime_MultipartPostForm \notin DOMAIN mimeMap /\ OnlyMultipartValues) =>
                 /\ InboundForRequest(enc, req.ContentType).contentType
                       = Mime_Wildcard
                 /\ DecodedFromBodyBy(mimeWildcard)
                 /\ call.err # ErrNotSupported
           /\ ResolvedPairAgreesWithGet(enc, req.ContentType)

\* multipart/form-data was deleted, a caller replaced the wildcard codec, and
\* a POST request with the Content-Type multipart/form-data and a multipart
\* form that would parse was decoded from its body by the wildcard codec
C21_Witness ==
    /\ call.op = "Bind"
    /\ req.Method = "POST"
    /\ req.ContentType = <<Mime_MultipartPostForm>>
    /\ req.MultipartForm = "multipart: id=foo&name=bar"
    /\ Mime_MultipartPostForm \notin DOMAIN mimeMap
    /\ mimeWildcard = MsgpackCodec
    /\ trace[1] = Event(MsgpackCodec, "NewDecoder", <<"req.Body">>, Nil)
    /\ call.err = Nil

=============================================================================
